---- MODULE Spec2Model ----
(***************************************************************************)
(* Interprocedural control-flow graph construction and analysis of         *)
(* llvm-cfg-to-json.                                                       *)
(*                                                                         *)
(*   llvm_cfg.py      create_cfg: the graph builder (specification Spec)   *)
(*   analyze_cfgs.py  main: builder working on a list of module files      *)
(*   cfg_stats.py     main, get_longest_path: builder and analyzer         *)
(*   cfg_eccentricity.py  main: eccentricity of one entry (SpecEcc)        *)
(*   merge_cfgs.py    main: the merge tool, run before create_cfg          *)
(*                                                                         *)
(* A JSON value that may be missing is a record [tag, val]: tag is         *)
(* "absent" (no such key), "null" (key present, value null) or "val".      *)
(***************************************************************************)
EXTENDS Naturals, Sequences, FiniteSets, TLC

VARIABLES
    jsons,          \* the input files, in the order given
    entry_point,    \* requested entry function name
    entry_module,   \* requested module, or None
    blacklist,      \* set of function names to skip
    cfg_dict,       \* module -> function -> record, in insertion order
    cfg,            \* the networkx DiGraph: [nodes: node -> attributes, edges]
    entry_nodes,    \* entry nodes collected by the builder
    added,          \* history: which statement added which edge, for which call
    pc,             \* position in the program
    pos,            \* index of the function record being processed
    raised,         \* exception that ended the program, or "none"
    out,            \* what the program printed or wrote
    modules,        \* analyze_cfgs.py: the module files loaded
    entry_pts,      \* cfg_stats.py: the (module, function) entry points
    nx_trivial      \* networkx: all_simple_paths yields [source] for source = target

vars == <<jsons, entry_point, entry_module, blacklist, cfg_dict, cfg,
          entry_nodes, added, pc, pos, raised, out, modules, entry_pts,
          nx_trivial>>

\* the arguments of the program
args == <<jsons, entry_point, entry_module, blacklist, nx_trivial>>

-----------------------------------------------------------------------------
(* Bounds of the inputs *)

MaxEdges == 2
MaxCalls == 2
MaxIndirect == 2

Mods == {"m1", "m2"}
Labels == {"A", "B"}
None == "None"

SeqsUpTo(S, n) == UNION {[1..k -> S] : k \in 0..n}

-----------------------------------------------------------------------------
(* JSON values and Python dictionaries *)

Absent(empty) == [tag |-> "absent", val |-> empty]
Null(empty) == [tag |-> "null", val |-> empty]
Val(v) == [tag |-> "val", val |-> v]

\* x = d.get(key); if x is None: x = default
GetOr(field, default) == IF field.tag = "val" THEN field.val ELSE default

\* key in d
HasKey(field) == field.tag # "absent"

\* the dictionary {} returned by find_callee for an unknown function
EmptyDict ==
    [module |-> "", nodes |-> Absent({}), edges |-> Absent(<<>>),
     calls |-> Absent(<<>>), entry |-> Absent(""), returns |-> Absent(<<>>),
     indirect_calls |-> Absent(<<>>)]

\* d[key] = value on an insertion-ordered dictionary kept as a sequence of
\* [key, value] records: an existing key keeps its position.
DictSet(d, key, value) ==
    IF \E i \in 1..Len(d) : d[i].key = key
    THEN [i \in 1..Len(d) |-> IF d[i].key = key
                              THEN [key |-> key, value |-> value] ELSE d[i]]
    ELSE Append(d, [key |-> key, value |-> value])

HasDictKey(d, key) == \E i \in 1..Len(d) : d[i].key = key

DictGet(d, key) == d[CHOOSE i \in 1..Len(d) : d[i].key = key].value

-----------------------------------------------------------------------------
(* llvm_cfg.py *)

create_cfg_node(mod, func, identifier) == mod \o "." \o func \o "." \o identifier

\* the first function of that name, scanning modules and functions in order
RECURSIVE FindInModule(_, _, _)
FindInModule(mod_dict, callee_func, i) ==
    IF i > Len(mod_dict) THEN <<>>
    ELSE IF mod_dict[i].key = callee_func THEN <<mod_dict[i].value>>
    ELSE FindInModule(mod_dict, callee_func, i + 1)

RECURSIVE FindFrom(_, _, _)
FindFrom(d, callee_func, i) ==
    IF i > Len(d) THEN EmptyDict
    ELSE LET hit == FindInModule(d[i].value, callee_func, 1)
         IN  IF hit # <<>> THEN hit[1] ELSE FindFrom(d, callee_func, i + 1)

find_callee(d, callee_func) == FindFrom(d, callee_func, 1)

\* cfg_dict[mod][func] = func_data for every function of one file
RECURSIVE LoadModule(_, _, _, _)
LoadModule(d, mod, mod_data, i) ==
    IF i > Len(mod_data) THEN d
    ELSE LET mod_dict == IF HasDictKey(d, mod) THEN DictGet(d, mod) ELSE <<>>
             new_dict == DictSet(mod_dict, mod_data[i].key, mod_data[i].value)
         IN  LoadModule(DictSet(d, mod, new_dict), mod, mod_data, i + 1)

\* the loop over the paths: a path that is no file is skipped
RECURSIVE LoadFiles(_, _, _)
LoadFiles(d, paths, i) ==
    IF i > Len(paths) THEN d
    ELSE IF ~paths[i].is_file THEN LoadFiles(d, paths, i + 1)
    ELSE LoadFiles(LoadModule(d, paths[i].stem, paths[i].mod_data, 1), paths, i + 1)

\* the (mod, func, func_dict) triples in the order of the two nested loops
RECURSIVE Flatten(_, _)
Flatten(d, i) ==
    IF i > Len(d) THEN <<>>
    ELSE [j \in 1..Len(d[i].value) |->
             [mod |-> d[i].key, func |-> d[i].value[j].key,
              func_dict |-> d[i].value[j].value]]
         \o Flatten(d, i + 1)

Work == Flatten(cfg_dict, 1)

(* networkx.DiGraph *)

NoAttr == [module |-> "", function |-> "", start_line |-> 0, end_line |-> 0,
           size |-> 0, indirect_calls |-> 0]

EmptyGraph == [nodes |-> <<>>, edges |-> {}]

HasNode(g, n) == n \in DOMAIN g.nodes

\* add the nodes of a set, without attributes, unless present
WithNodes(g, ns) ==
    [g EXCEPT !.nodes = [n \in (DOMAIN g.nodes) \cup ns |->
                            IF n \in DOMAIN g.nodes THEN g.nodes[n] ELSE NoAttr]]

add_edge(g, u, v) ==
    LET g1 == WithNodes(g, {u, v})
    IN  [g1 EXCEPT !.edges = g1.edges \cup {<<u, v>>}]

in_degree(g, n) == Cardinality({e \in g.edges : e[2] = n})

\* the block data of the input: the pass omits the lines of synthetic blocks
BlockData(label) ==
    IF label = "A" THEN [start_line |-> 1, end_line |-> 2, size |-> 3]
    ELSE [start_line |-> 0, end_line |-> 0, size |-> 1]

\* cfg.add_node(node, module=mod, function=func) and the line attributes
AddBlock(g, mod, func, label) ==
    LET node == create_cfg_node(mod, func, label)
        data == BlockData(label)
        g1 == WithNodes(g, {node})
        a1 == [g1.nodes[node] EXCEPT !.module = mod, !.function = func]
        a2 == IF data.start_line # 0 /\ data.end_line # 0
              THEN [a1 EXCEPT !.start_line = data.start_line,
                              !.end_line = data.end_line, !.size = data.size]
              ELSE a1
    IN  [g1 EXCEPT !.nodes[node] = a2]

RECURSIVE AddNodes(_, _, _, _)
AddNodes(g, mod, func, labels) ==
    IF labels = {} THEN g
    ELSE LET l == CHOOSE x \in labels : TRUE
         IN  AddNodes(AddBlock(g, mod, func, l), mod, func, labels \ {l})

\* func == entry_point and (entry_module is None or mod == entry_module)
\*     and cfg.in_degree(src_node) == 0
IsEntryNode(g, mod, func, src_node) ==
    /\ func = entry_point
    /\ (entry_module = None \/ mod = entry_module)
    /\ in_degree(g, src_node) = 0

\* s is the state of the build: [cfg, entry_nodes, added]
RECURSIVE AddEdges(_, _, _, _, _)
AddEdges(s, mod, func, edges, i) ==
    IF i > Len(edges) THEN s
    ELSE LET src_node == create_cfg_node(mod, func, edges[i].src)
             dst_node == create_cfg_node(mod, func, edges[i].dst)
             g1 == add_edge(s.cfg, src_node, dst_node)
             s1 == [cfg |-> g1,
                    entry_nodes |-> IF IsEntryNode(g1, mod, func, src_node)
                                    THEN s.entry_nodes \cup {src_node}
                                    ELSE s.entry_nodes,
                    added |-> s.added \cup
                        {[kind |-> "intra", src |-> src_node, dst |-> dst_node,
                          mod |-> mod, func |-> func, call |-> 0, callee |-> ""]}]
         IN  AddEdges(s1, mod, func, edges, i + 1)

\* a builder that never takes a callee for external
IsExternalNever(callee_dict) == FALSE

\* 'entry' not in callee_dict
IsExternal(callee_dict) == ~HasKey(callee_dict.entry)

CallSrc(mod, func, call) == create_cfg_node(mod, func, call.src)

CallDst(callee_dict, callee) ==
    create_cfg_node(callee_dict.module, callee, callee_dict.entry.val)

ReturnSrc(mod, callee_dict, callee, ret) == create_cfg_node(mod, callee, ret)

\* a builder that returns into the callee instead of the caller
ReturnDstInCallee(mod, func, callee, call) == create_cfg_node(mod, callee, call.src)

ReturnDst(mod, func, callee, call) == create_cfg_node(mod, func, call.src)

RECURSIVE AddReturns(_, _, _, _, _, _, _, _)
AddReturns(s, mod, func, call, k, callee_dict, returns, i) ==
    IF i > Len(returns) THEN s
    ELSE LET src_node == ReturnSrc(mod, callee_dict, call.dst, returns[i])
             dst_node == ReturnDst(mod, func, call.dst, call)
             s1 == [s EXCEPT !.cfg = add_edge(s.cfg, src_node, dst_node),
                             !.added = s.added \cup
                        {[kind |-> "return", src |-> src_node, dst |-> dst_node,
                          mod |-> mod, func |-> func, call |-> k,
                          callee |-> call.dst]}]
         IN  AddReturns(s1, mod, func, call, k, callee_dict, returns, i + 1)

\* d is cfg_dict, the index of every function loaded
RECURSIVE AddCalls(_, _, _, _, _, _)
AddCalls(s, d, mod, func, calls, k) ==
    IF k > Len(calls) THEN s
    ELSE LET call == calls[k]
             callee_dict == find_callee(d, call.dst)
         IN  IF IsExternal(callee_dict)
             THEN AddCalls(s, d, mod, func, calls, k + 1)
             ELSE LET src_node == CallSrc(mod, func, call)
                      dst_node == CallDst(callee_dict, call.dst)
                      g1 == add_edge(s.cfg, src_node, dst_node)
                      s1 == [cfg |-> g1,
                             entry_nodes |->
                                 IF IsEntryNode(g1, mod, func, src_node)
                                 THEN s.entry_nodes \cup {src_node}
                                 ELSE s.entry_nodes,
                             added |-> s.added \cup
                                 {[kind |-> "call", src |-> src_node,
                                   dst |-> dst_node, mod |-> mod, func |-> func,
                                   call |-> k, callee |-> call.dst]}]
                      returns == GetOr(callee_dict.returns, <<>>)
                      s2 == AddReturns(s1, mod, func, call, k, callee_dict,
                                       returns, 1)
                  IN  AddCalls(s2, d, mod, func, calls, k + 1)

\* Counter(indirect_calls)[n]
Count(seq, n) == Cardinality({i \in 1..Len(seq) : seq[i] = n})

Range(seq) == {seq[i] : i \in 1..Len(seq)}

\* cfg.nodes[node]['indirect_calls'] = indirect_call_count[n]
SetIndirect(g, node, count) ==
    LET g1 == WithNodes(g, {node})
    IN  [g1 EXCEPT !.nodes[node].indirect_calls = count]

RECURSIVE CountIndirect(_, _, _, _, _)
CountIndirect(g, mod, func, indirect_calls, todo) ==
    IF todo = {} THEN g
    ELSE LET n == CHOOSE x \in todo : TRUE
             g1 == SetIndirect(g, create_cfg_node(mod, func, n),
                               Count(indirect_calls, n))
         IN  CountIndirect(g1, mod, func, indirect_calls, todo \ {n})

\* the body of the loop over the functions, for one function
ProcessRecord(s, d, mod, func, func_dict) ==
    LET nodes == GetOr(func_dict.nodes, {})
        edges == GetOr(func_dict.edges, <<>>)
        calls == GetOr(func_dict.calls, <<>>)
        indirect_calls == GetOr(func_dict.indirect_calls, <<>>)
        s1 == [s EXCEPT !.cfg = AddNodes(s.cfg, mod, func, nodes)]
        s2 == AddEdges(s1, mod, func, edges, 1)
        s3 == AddCalls(s2, d, mod, func, calls, 1)
    IN  [s3 EXCEPT !.cfg = CountIndirect(s3.cfg, mod, func, indirect_calls,
                                         Range(indirect_calls))]

-----------------------------------------------------------------------------
(* merge_cfgs.py *)

\* all_funcs[mod][func] = func_data for the functions of one file, after
\* assert func not in all_funcs[mod]. s is [all_funcs, raised]
RECURSIVE MergeModule(_, _, _, _)
MergeModule(s, mod, mod_data, i) ==
    IF i > Len(mod_data) \/ s.raised # "none" THEN s
    ELSE LET mod_dict == IF HasDictKey(s.all_funcs, mod)
                         THEN DictGet(s.all_funcs, mod) ELSE <<>>
         IN  IF HasDictKey(mod_dict, mod_data[i].key)
             THEN [s EXCEPT !.raised = "AssertionError"]
             ELSE MergeModule(
                      [s EXCEPT !.all_funcs =
                           DictSet(s.all_funcs, mod,
                                   DictSet(mod_dict, mod_data[i].key,
                                           mod_data[i].value))],
                      mod, mod_data, i + 1)

\* the loop over the paths: a path that is no file is skipped
RECURSIVE MergeFiles(_, _, _)
MergeFiles(s, paths, i) ==
    IF i > Len(paths) \/ s.raised # "none" THEN s
    ELSE IF ~paths[i].is_file THEN MergeFiles(s, paths, i + 1)
    ELSE MergeFiles(MergeModule(s, paths[i].stem, paths[i].mod_data, 1),
                    paths, i + 1)

-----------------------------------------------------------------------------
(* The inputs of create_cfg *)

Default(module) ==
    [module |-> module,
     nodes |-> Val(Labels),
     edges |-> Val(<<[src |-> "A", dst |-> "B"]>>),
     calls |-> Val(<<>>),
     entry |-> Val("A"),
     returns |-> Val(<<"B">>),
     indirect_calls |-> Val(<<>>)]

EdgePairs == {[src |-> "A", dst |-> "B"], [src |-> "B", dst |-> "A"]}

CallOpts == {[src |-> "A", dst |-> "f"], [src |-> "B", dst |-> "g"],
             [src |-> "B", dst |-> "ext"]}

\* records of the function g: the default record with one field changed
RichRecs ==
    LET d == Default("m1")
    IN  {[d EXCEPT !.nodes = o] : o \in {Absent({}), Null({})}}
        \cup {[d EXCEPT !.edges = o] : o \in {Absent(<<>>), Null(<<>>)}}
        \cup {[d EXCEPT !.calls = o] : o \in {Absent(<<>>), Null(<<>>)}}
        \cup {[d EXCEPT !.returns = o] : o \in {Absent(<<>>), Null(<<>>)}}
        \cup {[d EXCEPT !.indirect_calls = o] : o \in {Absent(<<>>), Null(<<>>)}}
        \cup {[d EXCEPT !.entry = o] : o \in {Absent(""), Val("B")}}
        \cup {[d EXCEPT !.nodes = o, !.edges = Val(<<>>),
                        !.indirect_calls = Val(<<"B">>)] :
                 o \in {Absent({}), Null({})}}
        \cup {[d EXCEPT !.edges = Val(e)] : e \in SeqsUpTo(EdgePairs, MaxEdges)}
        \cup {[d EXCEPT !.calls = Val(c)] : c \in SeqsUpTo(CallOpts, MaxCalls)}
        \cup {[d EXCEPT !.indirect_calls = Val(u)] :
                 u \in SeqsUpTo(Labels, MaxIndirect)}

\* records of the function f, which g calls
CalleeRecs ==
    {[Default(m) EXCEPT !.entry = e, !.returns = r] :
        m \in Mods,
        e \in {Absent(""), Val("A")},
        r \in {Absent(<<>>), Null(<<>>), Val(<<>>), Val(<<"B">>),
               Val(<<"A", "B">>)}}

\* a second record of the function g
DupRecs == {[Default("m1") EXCEPT !.indirect_calls = Val(<<"A">>)]}

Second ==
    {[key |-> "f", value |-> r] : r \in CalleeRecs}
    \cup {[key |-> "g", value |-> r] : r \in DupRecs}

File(stem, mod_data) == [stem |-> stem, is_file |-> TRUE, mod_data |-> mod_data]

\* g is in the file m1; the second record is in the same file or in another
Layouts(first, second) ==
    {<<File("m1", <<first, second>>)>> : x \in {y \in {1} : first.key # second.key}}
    \cup {<<File("m1", <<second, first>>)>> : x \in {y \in {1} : first.key # second.key}}
    \cup {<<File("m1", <<first>>), File(m, <<second>>)>> : m \in Mods}
    \cup {<<File(m, <<second>>), File("m1", <<first>>)>> : m \in Mods}
    \cup {<<[File("m2", <<second>>) EXCEPT !.is_file = FALSE],
            File("m1", <<first>>)>>}

Requests ==
    {[entry_point |-> "g", entry_module |-> None, blacklist |-> {}],
     [entry_point |-> "g", entry_module |-> "m2", blacklist |-> {}],
     [entry_point |-> "g", entry_module |-> "m1", blacklist |-> {"f"}]}

\* d.get(key) on a JSON object kept as a dictionary
Lookup(obj, key, empty) ==
    IF HasDictKey(obj, key) THEN Val(DictGet(obj, key)) ELSE Absent(empty)

\* A value of the merged file, module -> function -> record, as create_cfg
\* reads it: mod_data.items() yields a module name and the dictionary of its
\* functions, which is then used as func_data. It has the keys of a function
\* record only if functions are named so. module "" stands for no such key.
AsFunctionRecord(obj) ==
    [module |-> IF HasDictKey(obj, "module") THEN DictGet(obj, "module") ELSE "",
     nodes |-> Lookup(obj, "nodes", {}),
     edges |-> Lookup(obj, "edges", <<>>),
     calls |-> Lookup(obj, "calls", <<>>),
     entry |-> Lookup(obj, "entry", ""),
     returns |-> Lookup(obj, "returns", <<>>),
     indirect_calls |-> Lookup(obj, "indirect_calls", <<>>)]

\* the file written by merge_cfgs.py, as json.load returns it
MergedFile(all_funcs) ==
    File("merged", [i \in 1..Len(all_funcs) |->
                       [key |-> all_funcs[i].key,
                        value |-> AsFunctionRecord(all_funcs[i].value)]])

\* the paths given to create_cfg: the files, or the one file merged from them
Paths == IF out = <<>> THEN jsons ELSE <<MergedFile(out[1].all_funcs)>>

-----------------------------------------------------------------------------
(* create_cfg as a state machine, with or without merge_cfgs.py run first *)

Init ==
    /\ \E r \in RichRecs, second \in Second :
           jsons \in Layouts([key |-> "g", value |-> r], second)
    /\ \E q \in Requests :
           /\ entry_point = q.entry_point
           /\ entry_module = q.entry_module
           /\ blacklist = q.blacklist
    /\ cfg_dict = <<>>
    /\ cfg = EmptyGraph
    /\ entry_nodes = {}
    /\ added = {}
    /\ pc \in {"load", "merge"}
    /\ pos = 0
    /\ raised = "none"
    /\ out = <<>>
    /\ modules = <<>>
    /\ entry_pts = <<>>
    /\ nx_trivial = TRUE

\* merge_cfgs.py main: json.dump(all_funcs, outf), or the assert fails
Merge ==
    /\ pc = "merge"
    /\ LET s == MergeFiles([all_funcs |-> <<>>, raised |-> "none"], jsons, 1)
       IN  /\ raised' = s.raised
           /\ out' = IF s.raised = "none"
                     THEN <<[kind |-> "json", all_funcs |-> s.all_funcs]>>
                     ELSE out
           /\ pc' = IF s.raised = "none" THEN "load" ELSE "raised"
    /\ UNCHANGED <<args, cfg_dict, cfg, entry_nodes, added, pos, modules,
                   entry_pts>>

\* the loop over the JSON files
Load ==
    /\ pc = "load"
    /\ cfg_dict' = LoadFiles(<<>>, Paths, 1)
    /\ pc' = "build"
    /\ pos' = 1
    /\ UNCHANGED <<args, cfg, entry_nodes, added, raised, out, modules,
                   entry_pts>>

\* one iteration of the loop over the functions
ProcessFunction ==
    /\ pc = "build"
    /\ pos <= Len(Work)
    /\ Work[pos].func_dict.module # ""
    /\ Work[pos].func \notin blacklist
    /\ LET w == Work[pos]
           s == ProcessRecord([cfg |-> cfg, entry_nodes |-> entry_nodes,
                               added |-> added], cfg_dict, w.mod, w.func,
                              w.func_dict)
       IN  /\ cfg' = s.cfg
           /\ entry_nodes' = s.entry_nodes
           /\ added' = s.added
    /\ pos' = pos + 1
    /\ UNCHANGED <<args, cfg_dict, pc, raised, out, modules, entry_pts>>

\* if func in blacklist: continue
SkipBlacklisted ==
    /\ pc = "build"
    /\ pos <= Len(Work)
    /\ Work[pos].func_dict.module # ""
    /\ Work[pos].func \in blacklist
    /\ pos' = pos + 1
    /\ UNCHANGED <<args, cfg_dict, cfg, entry_nodes, added, pc, raised, out,
                   modules, entry_pts>>

\* func_dict['module'], an argument of both logging calls, raises KeyError
MissingModule ==
    /\ pc = "build"
    /\ pos <= Len(Work)
    /\ Work[pos].func_dict.module = ""
    /\ raised' = "KeyError"
    /\ pc' = "raised"
    /\ UNCHANGED <<args, cfg_dict, cfg, entry_nodes, added, pos, out, modules,
                   entry_pts>>

\* return cfg, list(entry_nodes)
Return ==
    /\ pc = "build"
    /\ pos > Len(Work)
    /\ pc' = "done"
    /\ UNCHANGED <<args, cfg_dict, cfg, entry_nodes, added, pos, raised, out,
                   modules, entry_pts>>

Next ==
    Merge \/ Load \/ ProcessFunction \/ SkipBlacklisted \/ MissingModule
    \/ Return

Spec == Init /\ [][Next]_vars

-----------------------------------------------------------------------------
(* analyze_cfgs.py: the builder on module files [module, functions] *)

NoAttrBB == [module |-> "", function |-> "", basic_block |-> "",
             start_line |-> 0, end_line |-> 0, unresolved_calls |-> 0]

EmptyTypedGraph == [nodes |-> <<>>, edges |-> {}, type |-> <<>>]

\* cfg.add_edge(u, v, type=t): the type of an edge already there is replaced
add_typed_edge(g, u, v, t) ==
    [nodes |-> [n \in (DOMAIN g.nodes) \cup {u, v} |->
                   IF n \in DOMAIN g.nodes THEN g.nodes[n] ELSE NoAttrBB],
     edges |-> g.edges \cup {<<u, v>>},
     type |-> [e \in g.edges \cup {<<u, v>>} |->
                  IF e = <<u, v>> THEN t ELSE g.type[e]]]

\* cfg.add_node(node, module=module, function=func, basic_block=label)
AddBasicBlock(g, module, func, label) ==
    LET node == create_cfg_node(module, func, label)
        data == BlockData(label)
        old == IF node \in DOMAIN g.nodes THEN g.nodes[node] ELSE NoAttrBB
        a1 == [old EXCEPT !.module = module, !.function = func,
                          !.basic_block = label]
        a2 == IF data.start_line # 0 /\ data.end_line # 0
              THEN [a1 EXCEPT !.start_line = data.start_line,
                              !.end_line = data.end_line]
              ELSE a1
    IN  [g EXCEPT !.nodes = [n \in (DOMAIN g.nodes) \cup {node} |->
                                IF n = node THEN a2 ELSE g.nodes[n]]]

RECURSIVE AddBasicBlocks(_, _, _, _)
AddBasicBlocks(g, module, func, labels) ==
    IF labels = {} THEN g
    ELSE LET l == CHOOSE x \in labels : TRUE
         IN  AddBasicBlocks(AddBasicBlock(g, module, func, l), module, func,
                            labels \ {l})

\* the (module, func_data) of the first function of that name, or (None, {})
RECURSIVE FindInFunctions(_, _, _)
FindInFunctions(functions, callee, j) ==
    IF j > Len(functions) THEN <<>>
    ELSE IF functions[j].name = callee THEN <<functions[j]>>
    ELSE FindInFunctions(functions, callee, j + 1)

RECURSIVE FindInModules(_, _, _)
FindInModules(mods, callee, i) ==
    IF i > Len(mods) THEN [module |-> None, data |-> [EmptyDict EXCEPT !.module = None]]
    ELSE LET hit == FindInFunctions(mods[i].functions, callee, 1)
         IN  IF hit # <<>> THEN [module |-> mods[i].module, data |-> hit[1]]
             ELSE FindInModules(mods, callee, i + 1)

find_callee_in_modules(mods, callee) == FindInModules(mods, callee, 1)

\* s is the state of the build: [cfg, raised]; d[key] raises KeyError when the
\* key is absent
Raise(s, exception) == [s EXCEPT !.raised = exception]

BlocksOf(s, module, func, func_data) ==
    IF s.raised # "none" THEN s
    ELSE IF ~HasKey(func_data.blocks) THEN Raise(s, "KeyError")
    ELSE [s EXCEPT !.cfg = AddBasicBlocks(s.cfg, module, func,
                                          GetOr(func_data.blocks, {}))]

RECURSIVE AddTypedEdges(_, _, _, _, _)
AddTypedEdges(g, module, func, edges, i) ==
    IF i > Len(edges) THEN g
    ELSE AddTypedEdges(add_typed_edge(g, create_cfg_node(module, func, edges[i].src),
                                      create_cfg_node(module, func, edges[i].dst),
                                      edges[i].type),
                       module, func, edges, i + 1)

EdgesOf(s, module, func, func_data) ==
    IF s.raised # "none" THEN s
    ELSE IF ~HasKey(func_data.edges) THEN Raise(s, "KeyError")
    ELSE [s EXCEPT !.cfg = AddTypedEdges(s.cfg, module, func,
                                         GetOr(func_data.edges, <<>>), 1)]

RECURSIVE AddTypedReturns(_, _, _, _, _, _, _, _)
AddTypedReturns(g, module, func, caller_bb, callee_mod, callee_func, returns, i) ==
    IF i > Len(returns) THEN g
    ELSE AddTypedReturns(
             add_typed_edge(g, create_cfg_node(callee_mod, callee_func, returns[i]),
                            create_cfg_node(module, func, caller_bb), "return"),
             module, func, caller_bb, callee_mod, callee_func, returns, i + 1)

RECURSIVE AddTypedCalls(_, _, _, _, _)
AddTypedCalls(s, module, func, calls, k) ==
    IF k > Len(calls) \/ s.raised # "none" THEN s
    ELSE LET caller_bb == calls[k].src
             callee_func == calls[k].dst
             found == find_callee_in_modules(modules, callee_func)
         IN  IF ~HasKey(found.data.entry)
             THEN AddTypedCalls(s, module, func, calls, k + 1)
             ELSE LET g1 == add_typed_edge(
                                s.cfg, create_cfg_node(module, func, caller_bb),
                                create_cfg_node(found.module, callee_func,
                                                found.data.entry.val),
                                calls[k].type)
                  IN  IF ~HasKey(found.data.returns)
                      THEN Raise([s EXCEPT !.cfg = g1], "KeyError")
                      ELSE AddTypedCalls(
                               [s EXCEPT !.cfg = AddTypedReturns(
                                    g1, module, func, caller_bb, found.module,
                                    callee_func,
                                    GetOr(found.data.returns, <<>>), 1)],
                               module, func, calls, k + 1)

CallsOfFunction(s, module, func, func_data) ==
    IF s.raised # "none" THEN s
    ELSE IF ~HasKey(func_data.calls) THEN Raise(s, "KeyError")
    ELSE AddTypedCalls(s, module, func, GetOr(func_data.calls, <<>>), 1)

\* for bb in unresolved_call_count: cfg.nodes[node]['unresolved_calls'] = count
\* in the order of the first listing; a node that is not in the graph raises
RECURSIVE CountUnresolved(_, _, _, _, _)
CountUnresolved(s, module, func, unresolved, i) ==
    IF i > Len(unresolved) \/ s.raised # "none" THEN s
    ELSE IF \E j \in 1..(i - 1) : unresolved[j] = unresolved[i]
    THEN CountUnresolved(s, module, func, unresolved, i + 1)
    ELSE LET node == create_cfg_node(module, func, unresolved[i])
         IN  IF ~HasNode(s.cfg, node) THEN Raise(s, "KeyError")
             ELSE CountUnresolved(
                      [s EXCEPT !.cfg.nodes[node].unresolved_calls =
                                    Count(unresolved, unresolved[i])],
                      module, func, unresolved, i + 1)

\* the body of the loop over the functions of the modules, for one function
AnalyzeRecord(s, module, func_data) ==
    LET func == func_data.name
        s1 == BlocksOf(s, module, func, func_data)
        s2 == EdgesOf(s1, module, func, func_data)
        s3 == CallsOfFunction(s2, module, func, func_data)
    IN  CountUnresolved(s3, module, func,
                        GetOr(func_data.unresolved_calls, <<>>), 1)

RECURSIVE FlattenModules(_, _)
FlattenModules(mods, i) ==
    IF i > Len(mods) THEN <<>>
    ELSE [j \in 1..Len(mods[i].functions) |->
             [module |-> mods[i].module, func_data |-> mods[i].functions[j]]]
         \o FlattenModules(mods, i + 1)

ModuleWork == FlattenModules(modules, 1)

count_edges(g, edge_type) == Cardinality({e \in g.edges : g.type[e] = edge_type})

RECURSIVE SumOver(_, _)
SumOver(f, S) ==
    IF S = {} THEN 0
    ELSE LET x == CHOOSE y \in S : TRUE IN f[x] + SumOver(f, S \ {x})

get_num_unresolved_calls(g) ==
    SumOver([n \in DOMAIN g.nodes |-> g.nodes[n].unresolved_calls], DOMAIN g.nodes)

\* a node without the attribute counts as the function None
get_functions(g) == {g.nodes[n].function : n \in DOMAIN g.nodes}

(* The inputs of analyze_cfgs.py: the records of create_cfg in its format *)

TypedAs(field, type) ==
    [field EXCEPT !.val = [i \in 1..Len(field.val) |->
                              [src |-> field.val[i].src, dst |-> field.val[i].dst,
                               type |-> type]]]

FunctionData(named) ==
    [name |-> named.key,
     blocks |-> named.value.nodes,
     edges |-> TypedAs(named.value.edges, "intra"),
     calls |-> TypedAs(named.value.calls, "call"),
     entry |-> named.value.entry,
     returns |-> named.value.returns,
     unresolved_calls |-> named.value.indirect_calls]

ModuleFile(file) ==
    [is_file |-> file.is_file,
     mod_data |-> [module |-> file.stem,
                   functions |-> [j \in 1..Len(file.mod_data) |->
                                     FunctionData(file.mod_data[j])]]]

ModuleFiles(files) == [i \in 1..Len(files) |-> ModuleFile(files[i])]

(* analyze_cfgs.py main as a state machine *)

InitAnalyze ==
    /\ \E r \in RichRecs, second \in Second :
           \E files \in Layouts([key |-> "g", value |-> r], second) :
               jsons = ModuleFiles(files)
    /\ entry_point = ""
    /\ entry_module = None
    /\ blacklist = {}
    /\ cfg_dict = <<>>
    /\ cfg = EmptyTypedGraph
    /\ entry_nodes = {}
    /\ added = {}
    /\ pc = "load"
    /\ pos = 0
    /\ raised = "none"
    /\ out = <<>>
    /\ modules = <<>>
    /\ entry_pts = <<>>
    /\ nx_trivial = TRUE

\* the loop over args.cfg: opening a path that is no file raises
AnalyzeLoad ==
    /\ pc = "load"
    /\ IF \E i \in 1..Len(jsons) : ~jsons[i].is_file
       THEN /\ raised' = "OSError"
            /\ pc' = "raised"
            /\ modules' = [i \in 1..((CHOOSE k \in 1..Len(jsons) :
                                         /\ ~jsons[k].is_file
                                         /\ \A j \in 1..(k - 1) : jsons[j].is_file)
                                     - 1) |-> jsons[i].mod_data]
            /\ pos' = pos
       ELSE /\ modules' = [i \in 1..Len(jsons) |-> jsons[i].mod_data]
            /\ pc' = "build"
            /\ pos' = 1
            /\ raised' = raised
    /\ UNCHANGED <<args, cfg_dict, cfg, entry_nodes, added, out, entry_pts>>

\* one iteration of the loop over the functions
AnalyzeFunction ==
    /\ pc = "build"
    /\ pos <= Len(ModuleWork)
    /\ LET w == ModuleWork[pos]
           s == IF w.func_data.name \in blacklist
                THEN [cfg |-> cfg, raised |-> raised]
                ELSE AnalyzeRecord([cfg |-> cfg, raised |-> raised], w.module,
                                   w.func_data)
       IN  /\ cfg' = s.cfg
           /\ raised' = s.raised
           /\ pc' = IF s.raised # "none" THEN "raised" ELSE pc
           /\ pos' = IF s.raised # "none" THEN pos ELSE pos + 1
    /\ UNCHANGED <<args, cfg_dict, entry_nodes, added, out, modules, entry_pts>>

\* the summary printed at the end
AnalyzeSummarize ==
    /\ pc = "build"
    /\ pos > Len(ModuleWork)
    /\ out' = <<[functions |-> Cardinality(get_functions(cfg)),
                 intra |-> count_edges(cfg, "intra"),
                 call |-> count_edges(cfg, "call"),
                 return |-> count_edges(cfg, "return"),
                 unresolved |-> get_num_unresolved_calls(cfg)]>>
    /\ pc' = "done"
    /\ UNCHANGED <<args, cfg_dict, cfg, entry_nodes, added, pos, raised, modules,
                   entry_pts>>

NextAnalyze == AnalyzeLoad \/ AnalyzeFunction \/ AnalyzeSummarize

SpecAnalyze == InitAnalyze /\ [][NextAnalyze]_vars

-----------------------------------------------------------------------------
(* cfg_stats.py: builder and analyzer, run with --stats *)

create_node(mod, func, identifier) == mod \o "." \o func \o "." \o identifier

stats_find_callee(d, callee_func) == FindFrom(d, callee_func, 1)

\* cfg.add_edge(src, dst); cfg.nodes[src]['module'] = mod; ...['function'] = func
RECURSIVE StatsEdges(_, _, _, _, _)
StatsEdges(g, mod, func, edges, i) ==
    IF i > Len(edges) THEN g
    ELSE LET src == create_node(mod, func, edges[i].src)
             g1 == add_edge(g, src, create_node(mod, func, edges[i].dst))
         IN  StatsEdges([g1 EXCEPT !.nodes[src].module = mod,
                                   !.nodes[src].function = func],
                        mod, func, edges, i + 1)

RECURSIVE StatsReturns(_, _, _, _, _, _)
StatsReturns(g, mod, func, call, returns, i) ==
    IF i > Len(returns) THEN g
    ELSE StatsReturns(add_edge(g, create_node(mod, call.dst, returns[i]),
                               create_node(mod, func, call.src)),
                      mod, func, call, returns, i + 1)

RECURSIVE StatsCalls(_, _, _, _, _)
StatsCalls(g, mod, func, calls, k) ==
    IF k > Len(calls) THEN g
    ELSE LET callee == calls[k].dst
             callee_dict == stats_find_callee(cfg_dict, callee)
         IN  IF ~HasKey(callee_dict.entry)
             THEN StatsCalls(g, mod, func, calls, k + 1)
             ELSE LET g1 == add_edge(g, create_node(mod, func, calls[k].src),
                                     create_node(callee_dict.module, callee,
                                                 callee_dict.entry.val))
                      returns == GetOr(callee_dict.returns, <<>>)
                  IN  StatsCalls(StatsReturns(g1, mod, func, calls[k], returns, 1),
                                 mod, func, calls, k + 1)

RECURSIVE StatsIndirect(_, _, _, _, _)
StatsIndirect(g, mod, func, indirect_calls, todo) ==
    IF todo = {} THEN g
    ELSE LET n == CHOOSE x \in todo : TRUE
             g1 == SetIndirect(g, create_node(mod, func, n),
                               Count(indirect_calls, n))
         IN  StatsIndirect(g1, mod, func, indirect_calls, todo \ {n})

\* the body of the loop over the functions, for one function
StatsRecord(g, mod, func, func_dict) ==
    LET edges == GetOr(func_dict.edges, <<>>)
        calls == GetOr(func_dict.calls, <<>>)
        indirect_calls == GetOr(func_dict.indirect_calls, <<>>)
        g1 == StatsEdges(g, mod, func, edges, 1)
        g2 == StatsCalls(g1, mod, func, calls, 1)
    IN  StatsIndirect(g2, mod, func, indirect_calls, Range(indirect_calls))

\* cfg_dict[mod][func] = data and the entry points, over the files of the glob
RECURSIVE StatsLoadFiles(_, _, _)
StatsLoadFiles(s, files, i) ==
    IF i > Len(files) THEN s
    ELSE LET mod == files[i].data.module
             func == files[i].function
             is_entry == /\ func = entry_point
                         /\ (entry_module = None \/ mod = entry_module)
         IN  StatsLoadFiles(
                 [cfg_dict |-> LoadModule(s.cfg_dict, mod,
                                          <<[key |-> func, value |-> files[i].data]>>, 1),
                  entry_pts |-> IF is_entry
                                THEN Append(s.entry_pts, <<mod, func>>)
                                ELSE s.entry_pts],
                 files, i + 1)

(* networkx *)

Successors(g, n) == {e[2] : e \in {x \in g.edges : x[1] = n}}

out_degree(g, n) == Cardinality({e \in g.edges : e[1] = n})

RECURSIVE ReachedFrom(_, _)
ReachedFrom(g, seen) ==
    LET more == UNION {Successors(g, n) : n \in seen} \ seen
    IN  IF more = {} THEN seen ELSE ReachedFrom(g, seen \cup more)

\* nx.descendants: the nodes reachable from the source, the source left out
descendants(g, source) == ReachedFrom(g, {source}) \ {source}

\* reachable_cfg = cfg.copy(); reachable_cfg.remove_nodes_from(...)
Induced(g, keep) ==
    [nodes |-> [n \in keep |-> g.nodes[n]],
     edges |-> {e \in g.edges : e[1] \in keep /\ e[2] \in keep}]

\* the greatest length of a shortest path from v, level by level
RECURSIVE Levels(_, _, _, _)
Levels(g, frontier, seen, depth) ==
    LET next == UNION {Successors(g, n) : n \in frontier} \ seen
    IN  IF next = {} THEN [depth |-> depth, seen |-> seen]
        ELSE Levels(g, next, seen \cup next, depth + 1)

\* nx.eccentricity(g, v=v): raises when some node is not reached from v
eccentricity(g, v) ==
    LET bfs == Levels(g, {v}, {v}, 0)
    IN  IF Cardinality(bfs.seen) # Cardinality(DOMAIN g.nodes)
        THEN [raised |-> "NetworkXError", value |-> 0]
        ELSE [raised |-> "none", value |-> bfs.depth]

\* the simple paths that extend path and end at target
RECURSIVE SimplePathsFrom(_, _, _)
SimplePathsFrom(g, path, target) ==
    UNION {IF m = target THEN {Append(path, m)}
           ELSE SimplePathsFrom(g, Append(path, m), target) :
              m \in Successors(g, path[Len(path)]) \ Range(path)}

\* nx.all_simple_paths: for source = target the path [source] or nothing,
\* depending on the networkx installed
all_simple_paths(g, source, target) ==
    IF source = target
    THEN IF nx_trivial THEN {<<source>>} ELSE {}
    ELSE SimplePathsFrom(g, <<source>>, target)

get_num_indirect_calls(g) ==
    SumOver([n \in DOMAIN g.nodes |-> g.nodes[n].indirect_calls], DOMAIN g.nodes)

Max(S) == CHOOSE x \in S : \A y \in S : y <= x

\* the longest path plus one: what the + 1 is added to
PathLength(path) == Len(path)

\* len(max(sink_paths, key=len)) + 1; max of no path raises ValueError
get_longest_path(g, node) ==
    LET sinks == {n \in DOMAIN g.nodes : out_degree(g, n) = 0}
        sink_paths == UNION {all_simple_paths(g, node, sink) : sink \in sinks}
    IN  IF sink_paths = {} THEN [raised |-> "ValueError", value |-> 0]
        ELSE [raised |-> "none",
              value |-> Max({PathLength(p) : p \in sink_paths}) + 1]

\* one iteration of the loop over the entry points: s is [out, raised]
StatsOf(s, entry_mod, entry_func) ==
    LET func_dict == DictGet(DictGet(cfg_dict, entry_mod), entry_func)
    IN  IF ~HasKey(func_dict.entry) THEN [s EXCEPT !.raised = "KeyError"]
        ELSE LET entry_node == create_node(entry_mod, entry_func,
                                           func_dict.entry.val)
             IN  IF ~HasNode(cfg, entry_node)
                 THEN [s EXCEPT !.out = Append(s.out,
                           [kind |-> "skipped", entry_node |-> entry_node])]
                 ELSE LET reachable_cfg ==
                              Induced(cfg, descendants(cfg, entry_node)
                                           \cup {entry_node})
                          ecc == eccentricity(reachable_cfg, entry_node)
                          longest == get_longest_path(reachable_cfg, entry_node)
                      IN  IF ecc.raised # "none"
                          THEN [s EXCEPT !.raised = ecc.raised]
                          ELSE IF longest.raised # "none"
                          THEN [s EXCEPT !.raised = longest.raised]
                          ELSE [s EXCEPT !.out = Append(s.out,
                                    [kind |-> "stats",
                                     entry_node |-> entry_node,
                                     num_bbs |-> Cardinality(DOMAIN reachable_cfg.nodes),
                                     num_edges |-> Cardinality(reachable_cfg.edges),
                                     num_indirect_calls |->
                                         get_num_indirect_calls(reachable_cfg),
                                     eccentricity |-> ecc.value,
                                     longest_path |-> longest.value])]

(* The inputs of cfg_stats.py: one file for each function *)

MaxStatEdges == 3

StatLabels == {"A", "B", "C"}

StatPairs == {[src |-> a, dst |-> b] : a, b \in StatLabels} \
             {[src |-> a, dst |-> a] : a \in {"B", "C"}}

RECURSIVE SetToSeq(_)
SetToSeq(S) ==
    IF S = {} THEN <<>>
    ELSE LET x == CHOOSE y \in S : TRUE IN <<x>> \o SetToSeq(S \ {x})

StatEdgeLists ==
    {SetToSeq(E) : E \in {X \in SUBSET StatPairs : Cardinality(X) <= MaxStatEdges}}

StatFile(function, data) == [function |-> function, data |-> data]

\* the function g of module m1, whose edges, entry, calls and indirect calls vary
StatMain ==
    {StatFile("g", [Default("m1") EXCEPT !.edges = Val(e), !.entry = n,
                                         !.calls = Val(c),
                                         !.indirect_calls = Val(u)]) :
        e \in StatEdgeLists,
        n \in {Val("A")},
        c \in {<<>>, <<[src |-> "B", dst |-> "f"]>>},
        u \in {<<>>}}
    \cup {StatFile("g", [Default("m1") EXCEPT !.edges = e, !.entry = n,
                                              !.indirect_calls = Val(u)]) :
            e \in {Null(<<>>), Val(<<>>), Val(<<[src |-> "B", dst |-> "A"]>>),
                   Val(<<[src |-> "A", dst |-> "B"]>>)},
            n \in {Absent(""), Val("A")},
            u \in {<<>>, <<"A", "A">>}}

\* the other file: the callee f, or a function g of another module
StatOther ==
    {StatFile("f", [Default("m2") EXCEPT !.returns = r]) :
        r \in {Null(<<>>), Val(<<"B">>)}}
    \cup {StatFile("g", [Default("m2") EXCEPT !.entry = n]) :
            n \in {Absent(""), Val("A")}}

StatInputs ==
    {<<x>> : x \in StatMain}
    \cup {<<x, y>> : x \in StatMain, y \in StatOther}
    \cup {<<y, x>> : x \in StatMain, y \in StatOther}

(* cfg_stats.py main as a state machine *)

InitStats ==
    /\ jsons \in StatInputs
    /\ entry_point = "g"
    /\ entry_module \in {None, "m1"}
    /\ blacklist = {}
    /\ nx_trivial \in BOOLEAN
    /\ cfg_dict = <<>>
    /\ cfg = EmptyGraph
    /\ entry_nodes = {}
    /\ added = {}
    /\ pc = "load"
    /\ pos = 0
    /\ raised = "none"
    /\ out = <<>>
    /\ modules = <<>>
    /\ entry_pts = <<>>

\* the loop over the files of the glob
StatsLoad ==
    /\ pc = "load"
    /\ LET s == StatsLoadFiles([cfg_dict |-> <<>>, entry_pts |-> <<>>], jsons, 1)
       IN  /\ cfg_dict' = s.cfg_dict
           /\ entry_pts' = s.entry_pts
    /\ pc' = "build"
    /\ pos' = 1
    /\ UNCHANGED <<args, cfg, entry_nodes, added, raised, out, modules>>

\* one iteration of the loop over the functions
StatsFunction ==
    /\ pc = "build"
    /\ pos <= Len(Work)
    /\ LET w == Work[pos]
       IN  cfg' = IF w.func \in blacklist THEN cfg
                  ELSE StatsRecord(cfg, w.mod, w.func, w.func_dict)
    /\ pos' = pos + 1
    /\ UNCHANGED <<args, cfg_dict, entry_nodes, added, pc, raised, out, modules,
                   entry_pts>>

\* the graph is built: go on to the loop over the entry points
StatsBuilt ==
    /\ pc = "build"
    /\ pos > Len(Work)
    /\ pc' = "stats"
    /\ pos' = 1
    /\ UNCHANGED <<args, cfg_dict, cfg, entry_nodes, added, raised, out, modules,
                   entry_pts>>

\* one iteration of the loop over the entry points
StatsEntry ==
    /\ pc = "stats"
    /\ pos <= Len(entry_pts)
    /\ LET s == StatsOf([out |-> out, raised |-> raised], entry_pts[pos][1],
                        entry_pts[pos][2])
       IN  /\ out' = s.out
           /\ raised' = s.raised
           /\ pc' = IF s.raised # "none" THEN "raised" ELSE pc
           /\ pos' = IF s.raised # "none" THEN pos ELSE pos + 1
    /\ UNCHANGED <<args, cfg_dict, cfg, entry_nodes, added, modules, entry_pts>>

StatsDone ==
    /\ pc = "stats"
    /\ pos > Len(entry_pts)
    /\ pc' = "done"
    /\ UNCHANGED <<args, cfg_dict, cfg, entry_nodes, added, pos, raised, out,
                   modules, entry_pts>>

NextStats == StatsLoad \/ StatsFunction \/ StatsBuilt \/ StatsEntry \/ StatsDone

SpecStats == InitStats /\ [][NextStats]_vars

-----------------------------------------------------------------------------
(* cfg_eccentricity.py: one file for each function, nodes named func.label *)

\* '%s.%s' % (func, label)
FuncNode(func, label) == func \o "." \o label

\* cfg_dict[func] = data, over the files of the glob
RECURSIVE EccLoadFiles(_, _, _)
EccLoadFiles(d, files, i) ==
    IF i > Len(files) THEN d
    ELSE EccLoadFiles(DictSet(d, files[i].function, files[i].data), files, i + 1)

\* the functions of cfg_dict.items(), in order
EccWork == [i \in 1..Len(cfg_dict) |->
               [func |-> cfg_dict[i].key, func_dict |-> cfg_dict[i].value]]

\* first loop: the intraprocedural edges of one function
RECURSIVE EccEdges(_, _, _, _)
EccEdges(g, func, edges, i) ==
    IF i > Len(edges) THEN g
    ELSE EccEdges(add_edge(g, FuncNode(func, edges[i].src),
                           FuncNode(func, edges[i].dst)),
                  func, edges, i + 1)

RECURSIVE EccReturns(_, _, _, _, _)
EccReturns(g, func, call, returns, i) ==
    IF i > Len(returns) THEN g
    ELSE EccReturns(add_edge(g, FuncNode(call.dst, returns[i]),
                             FuncNode(func, call.src)),
                    func, call, returns, i + 1)

\* second loop: the call and return edges of one function
RECURSIVE EccCalls(_, _, _, _)
EccCalls(g, func, calls, k) ==
    IF k > Len(calls) THEN g
    ELSE LET callee == calls[k].dst
             callee_dict == IF HasDictKey(cfg_dict, callee)
                            THEN DictGet(cfg_dict, callee) ELSE EmptyDict
         IN  IF ~HasKey(callee_dict.entry)
             THEN EccCalls(g, func, calls, k + 1)
             ELSE LET g1 == add_edge(g, FuncNode(func, calls[k].src),
                                     FuncNode(callee, callee_dict.entry.val))
                      returns == GetOr(callee_dict.returns, <<>>)
                  IN  EccCalls(EccReturns(g1, func, calls[k], returns, 1),
                               func, calls, k + 1)

Predecessors(g, n) == {e[1] : e \in {x \in g.edges : x[2] = n}}

\* the nodes of the weakly connected component that holds the nodes seen
RECURSIVE WeakComponent(_, _)
WeakComponent(g, seen) ==
    LET more == UNION {Successors(g, n) \cup Predecessors(g, n) : n \in seen}
                \ seen
    IN  IF more = {} THEN seen ELSE WeakComponent(g, seen \cup more)

\* entry_node, the search for its component and nx.eccentricity
EccOf(s) ==
    IF ~HasDictKey(cfg_dict, entry_point) THEN [s EXCEPT !.raised = "KeyError"]
    ELSE IF ~HasKey(DictGet(cfg_dict, entry_point).entry)
    THEN [s EXCEPT !.raised = "KeyError"]
    ELSE LET entry_node == FuncNode("main", DictGet(cfg_dict, entry_point).entry.val)
         IN  IF ~HasNode(cfg, entry_node) THEN [s EXCEPT !.raised = "Exception"]
             ELSE LET sub_cfg == Induced(cfg, WeakComponent(cfg, {entry_node}))
                      ecc == eccentricity(sub_cfg, entry_node)
                  IN  IF ecc.raised # "none"
                      THEN [s EXCEPT !.raised = ecc.raised]
                      ELSE [s EXCEPT !.out = Append(s.out,
                                [kind |-> "eccentricity",
                                 entry_node |-> entry_node,
                                 eccentricity |-> ecc.value])]

(* The inputs of cfg_eccentricity.py *)

MaxEccEdges == 2

EccEdgeLists ==
    {SetToSeq(E) : E \in {X \in SUBSET StatPairs : Cardinality(X) <= MaxEccEdges}}

\* the function main, whose edges, entry and calls vary
EccMain ==
    {StatFile("main", [Default("m1") EXCEPT !.edges = e, !.entry = n,
                                            !.calls = Val(c)]) :
        e \in {Null(<<>>)} \cup {Val(x) : x \in EccEdgeLists},
        n \in {Absent(""), Val("A")},
        c \in {<<>>, <<[src |-> "B", dst |-> "f"]>>}}

\* the function f, which main calls
EccOther ==
    {StatFile("f", [Default("m1") EXCEPT !.entry = n, !.returns = r]) :
        n \in {Val("A"), Val("B")},
        r \in {Null(<<>>), Val(<<"B">>)}}

EccInputs ==
    {<<x>> : x \in EccMain}
    \cup {<<x, y>> : x \in EccMain, y \in EccOther}
    \cup {<<y, x>> : x \in EccMain, y \in EccOther}

(* cfg_eccentricity.py main as a state machine *)

InitEcc ==
    /\ jsons \in EccInputs
    /\ entry_point \in {"main", "f"}
    /\ entry_module = None
    /\ blacklist = {}
    /\ nx_trivial = TRUE
    /\ cfg_dict = <<>>
    /\ cfg = EmptyGraph
    /\ entry_nodes = {}
    /\ added = {}
    /\ pc = "load"
    /\ pos = 0
    /\ raised = "none"
    /\ out = <<>>
    /\ modules = <<>>
    /\ entry_pts = <<>>

\* the loop over the files of the glob
EccLoad ==
    /\ pc = "load"
    /\ cfg_dict' = EccLoadFiles(<<>>, jsons, 1)
    /\ pc' = "edges"
    /\ pos' = 1
    /\ UNCHANGED <<args, cfg, entry_nodes, added, raised, out, modules,
                   entry_pts>>

\* one iteration of the loop that adds the intraprocedural edges
EccIntraprocedural ==
    /\ pc = "edges"
    /\ pos <= Len(EccWork)
    /\ LET w == EccWork[pos]
       IN  cfg' = IF w.func \in blacklist THEN cfg
                  ELSE EccEdges(cfg, w.func, GetOr(w.func_dict.edges, <<>>), 1)
    /\ pos' = pos + 1
    /\ UNCHANGED <<args, cfg_dict, entry_nodes, added, pc, raised, out, modules,
                   entry_pts>>

EccIntraproceduralDone ==
    /\ pc = "edges"
    /\ pos > Len(EccWork)
    /\ pc' = "calls"
    /\ pos' = 1
    /\ UNCHANGED <<args, cfg_dict, cfg, entry_nodes, added, raised, out, modules,
                   entry_pts>>

\* one iteration of the loop that adds the interprocedural edges
EccInterprocedural ==
    /\ pc = "calls"
    /\ pos <= Len(EccWork)
    /\ LET w == EccWork[pos]
       IN  cfg' = EccCalls(cfg, w.func, GetOr(w.func_dict.calls, <<>>), 1)
    /\ pos' = pos + 1
    /\ UNCHANGED <<args, cfg_dict, entry_nodes, added, pc, raised, out, modules,
                   entry_pts>>

\* the component of the entry node and its eccentricity
EccReport ==
    /\ pc = "calls"
    /\ pos > Len(EccWork)
    /\ LET s == EccOf([out |-> out, raised |-> raised])
       IN  /\ out' = s.out
           /\ raised' = s.raised
           /\ pc' = IF s.raised # "none" THEN "raised" ELSE "done"
    /\ UNCHANGED <<args, cfg_dict, cfg, entry_nodes, added, pos, modules,
                   entry_pts>>

NextEcc ==
    EccLoad \/ EccIntraprocedural \/ EccIntraproceduralDone
    \/ EccInterprocedural \/ EccReport

SpecEcc == InitEcc /\ [][NextEcc]_vars

-----------------------------------------------------------------------------
(* What the claims speak about *)

Done == pc = "done"

Records == Range(Work)

Processed == {w \in Records : w.func \notin blacklist}

CallsOf(w) == GetOr(w.func_dict.calls, <<>>)

\* positions, in the order of the scan, of the records of a function name
NamedAt(callee) == {i \in 1..Len(Work) : Work[i].func = callee}

FirstNamed(callee) ==
    Work[CHOOSE i \in NamedAt(callee) : \A j \in NamedAt(callee) : i <= j]

\* the callee is in no record, or the record it resolves to has no entry
Unresolvable(callee) ==
    \/ NamedAt(callee) = {}
    \/ ~HasKey(FirstNamed(callee).func_dict.entry)

AddedFor(w, k) == {e \in added : e.mod = w.mod /\ e.func = w.func /\ e.call = k}

-----------------------------------------------------------------------------
\* C1: every call edge the builder added ends at the node (module, function,
\* entry) of some function record, the module being the one under which the
\* blocks of that record are inserted.
C1_CallEdgeEndsAtEntry ==
    \A e \in added :
        e.kind = "call" =>
            \E w \in Records :
                /\ HasKey(w.func_dict.entry)
                /\ e.dst = create_cfg_node(w.mod, w.func, w.func_dict.entry.val)

\* C2: every return edge ends at the node its call edge starts from, which is
\* the call-site block (m, g, X) of the caller.
C2_ReturnEndsAtCallSite ==
    \A r \in added :
        r.kind = "return" =>
            /\ \E c \in AddedFor(r, r.call) : c.kind = "call" /\ c.src = r.dst
            /\ \E w \in Processed :
                   /\ w.mod = r.mod /\ w.func = r.func
                   /\ r.call \in 1..Len(CallsOf(w))
                   /\ r.dst = create_cfg_node(w.mod, w.func, CallsOf(w)[r.call].src)

C2_Witness ==
    /\ Done
    /\ \E r \in added : r.kind = "return" /\ r.callee # r.func
    /\ \E w \in Processed : Len(CallsOf(w)) = MaxCalls

\* C3: a resolved call has its call edge and exactly one return edge per label
\* of the callee's returns, each starting at the callee's own block: the node
\* (callee's module, callee, label), the callee's module being the module it
\* was loaded under or the one its record names.
C3_ReturnsStartInCallee ==
    Done =>
        \A w \in Processed : \A k \in 1..Len(CallsOf(w)) :
            LET callee == CallsOf(w)[k].dst
            IN  (~Unresolvable(callee) /\ callee \notin blacklist) =>
                    LET c == FirstNamed(callee)
                        rets == Range(GetOr(c.func_dict.returns, <<>>))
                        got == {e.src : e \in {x \in AddedFor(w, k) :
                                                  x.kind = "return"}}
                    IN  /\ \E e \in AddedFor(w, k) : e.kind = "call"
                        /\ \/ got = {create_cfg_node(c.mod, callee, l) :
                                        l \in rets}
                           \/ got = {create_cfg_node(c.func_dict.module, callee, l) :
                                        l \in rets}

\* C4: a call to a callee that is in no record, or whose record has no entry,
\* adds no edge and no node; the blocks of the caller, its intra edges and the
\* call edges of its resolved calls are in the graph.
ExplainedNodes ==
    UNION {{create_cfg_node(w.mod, w.func, l) :
               l \in GetOr(w.func_dict.nodes, {})
                     \cup Range(GetOr(w.func_dict.indirect_calls, <<>>))}
           : w \in Processed}
    \cup UNION {{e.src, e.dst} :
                   e \in {x \in added : x.kind = "intra"
                                        \/ ~Unresolvable(x.callee)}}

C4_UnresolvedCallAddsNothing ==
    Done =>
        /\ \A e \in added : e.kind # "intra" => ~Unresolvable(e.callee)
        /\ DOMAIN cfg.nodes \subseteq ExplainedNodes
        /\ \A w \in Processed :
               /\ \A l \in GetOr(w.func_dict.nodes, {}) :
                      HasNode(cfg, create_cfg_node(w.mod, w.func, l))
               /\ \A e \in Range(GetOr(w.func_dict.edges, <<>>)) :
                      <<create_cfg_node(w.mod, w.func, e.src),
                        create_cfg_node(w.mod, w.func, e.dst)>> \in cfg.edges
               /\ \A k \in 1..Len(CallsOf(w)) :
                      ~Unresolvable(CallsOf(w)[k].dst) =>
                          \E e \in AddedFor(w, k) :
                              /\ e.kind = "call"
                              /\ e.src = create_cfg_node(w.mod, w.func,
                                                         CallsOf(w)[k].src)
                              /\ <<e.src, e.dst>> \in cfg.edges

C4_Witness ==
    /\ Done
    /\ \E w \in Processed :
           /\ GetOr(w.func_dict.edges, <<>>) # <<>>
           /\ \E k \in 1..Len(CallsOf(w)) : Unresolvable(CallsOf(w)[k].dst)
           /\ \E k \in 1..Len(CallsOf(w)) : ~Unresolvable(CallsOf(w)[k].dst)

\* both kinds of unresolvable callee occur: in no record, and without entry
C4_AbsentCallee ==
    Done /\ \E w \in Processed : \E k \in 1..Len(CallsOf(w)) :
                NamedAt(CallsOf(w)[k].dst) = {}

C4_CalleeWithoutEntry ==
    Done /\ \E w \in Processed : \E k \in 1..Len(CallsOf(w)) :
                /\ NamedAt(CallsOf(w)[k].dst) # {}
                /\ Unresolvable(CallsOf(w)[k].dst)

\* C5: the entry-node set holds exactly the designated entry blocks of the
\* functions named entry_point (of module entry_module when one is given).
\* The entry of a blacklisted function, or an entry that is no block of its
\* function, may be in the set or not.
EntryCandidates ==
    {w \in Records : /\ w.func = entry_point
                     /\ (entry_module = None \/ w.mod = entry_module)
                     /\ HasKey(w.func_dict.entry)}

C5_EntryNodesAreEntryBlocks ==
    Done =>
        /\ entry_nodes \subseteq
               {create_cfg_node(w.mod, w.func, w.func_dict.entry.val) :
                   w \in EntryCandidates}
        /\ \A w \in EntryCandidates :
               (/\ w.func \notin blacklist
                /\ w.func_dict.entry.val \in GetOr(w.func_dict.nodes, {}))
               => create_cfg_node(w.mod, w.func, w.func_dict.entry.val)
                      \in entry_nodes

\* C6: the indirect-call count of a node is the number of times its label is
\* listed, summed over all the input records of its module and function.
Listed(stem, func, label) ==
    LET at == {<<i, j>> \in (1..Len(jsons)) \X (1..2) :
                  /\ jsons[i].is_file
                  /\ j <= Len(jsons[i].mod_data)
                  /\ jsons[i].stem = stem
                  /\ jsons[i].mod_data[j].key = func}
        RECURSIVE Sum(_)
        Sum(S) == IF S = {} THEN 0
                  ELSE LET x == CHOOSE y \in S : TRUE
                           u == GetOr(jsons[x[1]].mod_data[x[2]].value.indirect_calls,
                                      <<>>)
                       IN  Count(u, label) + Sum(S \ {x})
    IN  Sum(at)

C6_IndirectCallsAccumulate ==
    Done =>
        \A w \in Processed : \A l \in Labels :
            LET n == create_cfg_node(w.mod, w.func, l)
            IN  IF HasNode(cfg, n)
                THEN cfg.nodes[n].indirect_calls = Listed(w.mod, w.func, l)
                ELSE Listed(w.mod, w.func, l) = 0

\* C7: a function record whose optional fields (edges, calls, blocks, returns,
\* indirect or unresolved calls) are absent or null is processed as if they
\* were empty: the build raises no KeyError, and at the end the blocks and
\* edges the record does give are in the graph.
C7_MissingFieldsAreEmpty ==
    /\ raised # "KeyError"
    /\ pc = "done" =>
           \A w \in Range(ModuleWork) :
               /\ \A l \in GetOr(w.func_data.blocks, {}) :
                      HasNode(cfg, create_cfg_node(w.module, w.func_data.name, l))
               /\ \A e \in Range(GetOr(w.func_data.edges, <<>>)) :
                      <<create_cfg_node(w.module, w.func_data.name, e.src),
                        create_cfg_node(w.module, w.func_data.name, e.dst)>>
                          \in cfg.edges

\* C8: an entry point that has no entry node in the graph (its function has no
\* entry, no blocks or edges, or was skipped) does not make the analyzer raise:
\* it is reported as skipped and the analysis goes on with the next entry point.
EntryRecord(ep) == DictGet(DictGet(cfg_dict, ep[1]), ep[2])

NoEntryNode(ep) ==
    \/ ~HasKey(EntryRecord(ep).entry)
    \/ ~HasNode(cfg, create_node(ep[1], ep[2], EntryRecord(ep).entry.val))

C8_MissingEntryIsSkipped ==
    pc \in {"stats", "done", "raised"} =>
        \A i \in 1..Len(entry_pts) :
            NoEntryNode(entry_pts[i]) =>
                /\ ~(pc = "raised" /\ pos = i)
                /\ (pos > i /\ HasKey(EntryRecord(entry_pts[i]).entry)) =>
                       \E j \in 1..Len(out) :
                           /\ out[j].kind = "skipped"
                           /\ out[j].entry_node =
                                  create_node(entry_pts[i][1], entry_pts[i][2],
                                              EntryRecord(entry_pts[i]).entry.val)

\* C9: the longest_path reported for an entry node is the number of nodes on a
\* longest simple path from the entry node to a sink of the reachable subgraph
\* (its number of edges plus one). Stated for entry nodes that have a
\* successor: for an entry node that is itself the sink the claim says 1.
RECURSIVE NodesToSink(_, _, _)
NodesToSink(g, n, visited) ==
    IF Successors(g, n) = {} THEN 1
    ELSE LET tails == {NodesToSink(g, m, visited \cup {m}) :
                          m \in Successors(g, n) \ visited} \ {0}
         IN  IF tails = {} THEN 0 ELSE 1 + Max(tails)

ReachableFrom(entry_node) ==
    Induced(cfg, ReachedFrom(cfg, {entry_node}))

C9_LongestPathCountsNodes ==
    \A j \in 1..Len(out) :
        (out[j].kind = "stats" /\ Successors(cfg, out[j].entry_node) # {}) =>
            out[j].longest_path =
                NodesToSink(ReachableFrom(out[j].entry_node), out[j].entry_node,
                            {out[j].entry_node})

\* C10: the longest-path computation does not raise when the subgraph
\* reachable from the entry node contains no sink: a ValueError is raised
\* at most for an entry node whose reachable subgraph has a sink.
HasSink(g) == \E n \in DOMAIN g.nodes : Successors(g, n) = {}

C10_LongestPathNeverRaises ==
    (pc = "raised" /\ raised = "ValueError") =>
        HasSink(ReachableFrom(create_node(entry_pts[pos][1], entry_pts[pos][2],
                                          EntryRecord(entry_pts[pos]).entry.val)))

(* C11: the eccentricity reported is the greatest shortest-path distance,   *)
(* along forward edges, from the entry node of the requested entry point to *)
(* the nodes reachable from it; nodes that are not reachable from the entry *)
(* node neither change the value nor make the computation fail.             *)

Least(S) == CHOOSE x \in S : \A y \in S : x <= y

\* the number of edges of a shortest forward path from u to v
ShortestDistance(g, u, v) ==
    IF u = v THEN 0
    ELSE Least({Len(p) - 1 : p \in SimplePathsFrom(g, <<u>>, v)})

ForwardEccentricity(g, v) ==
    Max({ShortestDistance(g, v, n) : n \in ReachedFrom(g, {v})})

\* the entry point asked for has an entry block, and that block is in the graph
RequestedEntryInGraph ==
    /\ HasDictKey(cfg_dict, entry_point)
    /\ HasKey(DictGet(cfg_dict, entry_point).entry)
    /\ HasNode(cfg, FuncNode(entry_point,
                             DictGet(cfg_dict, entry_point).entry.val))

\* C11: cfg_eccentricity.py reports, for the requested entry point whose
\* entry block is in the graph, the forward eccentricity of that entry node,
\* and does not raise.
C11_EccentricityOfRequestedEntry ==
    (pc \in {"done", "raised"} /\ RequestedEntryInGraph) =>
        LET entry_node == FuncNode(entry_point,
                                   DictGet(cfg_dict, entry_point).entry.val)
        IN  /\ raised = "none"
            /\ out = <<[kind |-> "eccentricity",
                        entry_node |-> entry_node,
                        eccentricity |-> ForwardEccentricity(cfg, entry_node)]>>

(* C12: one pre-merged file gives the same graph as the files it was made of *)

\* the loop over the functions, from the record at position i on:
\* s is [cfg, entry_nodes, added, raised]
RECURSIVE BuildFrom(_, _, _, _)
BuildFrom(s, d, work, i) ==
    IF i > Len(work) \/ s.raised # "none" THEN s
    ELSE IF work[i].func_dict.module = ""
    THEN [s EXCEPT !.raised = "KeyError"]
    ELSE IF work[i].func \in blacklist THEN BuildFrom(s, d, work, i + 1)
    ELSE LET t == ProcessRecord([cfg |-> s.cfg, entry_nodes |-> s.entry_nodes,
                                 added |-> s.added], d, work[i].mod,
                                work[i].func, work[i].func_dict)
         IN  BuildFrom([cfg |-> t.cfg, entry_nodes |-> t.entry_nodes,
                        added |-> t.added, raised |-> "none"], d, work, i + 1)

\* create_cfg(paths, entry_point, entry_module, blacklist) run on its own
create_cfg(paths) ==
    LET d == LoadFiles(<<>>, paths, 1)
    IN  BuildFrom([cfg |-> EmptyGraph, entry_nodes |-> {}, added |-> {},
                   raised |-> "none"], d, Flatten(d, 1), 1)

\* merge_cfgs.py has written the merged file and create_cfg has read it
BuiltFromMerged == pc \in {"done", "raised"} /\ out # <<>>

\* C12: when create_cfg has run on the file that merge_cfgs.py wrote from
\* the input files, it ends the way create_cfg ends on those files
\* themselves, with the same nodes, edges and entry nodes.
C12_MergedFileBuildsSameGraph ==
    BuiltFromMerged =>
        LET separate == create_cfg(jsons)
        IN  /\ raised = separate.raised
            /\ DOMAIN cfg.nodes = DOMAIN separate.cfg.nodes
            /\ cfg.edges = separate.cfg.edges
            /\ entry_nodes = separate.entry_nodes

(* C13: of two records with the same module and function name, the one *)
(* loaded first is kept, and loading does not fail                      *)

\* the records of the input files, in the order in which they are loaded
RECURSIVE InputRecords(_, _)
InputRecords(paths, i) ==
    IF i > Len(paths) THEN <<>>
    ELSE (IF paths[i].is_file
          THEN [j \in 1..Len(paths[i].mod_data) |->
                   [mod |-> paths[i].stem, func |-> paths[i].mod_data[j].key,
                    func_dict |-> paths[i].mod_data[j].value]]
          ELSE <<>>)
         \o InputRecords(paths, i + 1)

\* the record at position a is the first of its module and function name
FirstOfItsName(recs, a) ==
    \A b \in 1..(a - 1) :
        ~(recs[b].mod = recs[a].mod /\ recs[b].func = recs[a].func)

\* create_cfg has loaded the input files themselves
LoadedFromFiles == pc \in {"build", "done"} /\ out = <<>>

\* C13: merge_cfgs.py does not end with a failed assert, and once create_cfg
\* has loaded the files, the index holds for every (module, function name)
\* the first record loaded under that name.
C13_FirstRecordIsKept ==
    /\ raised # "AssertionError"
    /\ LoadedFromFiles =>
           LET recs == InputRecords(jsons, 1)
           IN  \A a \in 1..Len(recs) :
                   FirstOfItsName(recs, a) =>
                       DictGet(DictGet(cfg_dict, recs[a].mod), recs[a].func)
                           = recs[a].func_dict

(* C14: the graph holds nothing of a blacklisted function *)

\* the names that nodes of blacklisted functions have
BlacklistedNodes ==
    {create_cfg_node(m, f, l) : m \in Mods, f \in blacklist, l \in Labels}

\* C14: when create_cfg returns, no node of the graph is a block of a
\* blacklisted function and no edge starts or ends at such a block.
C14_BlacklistedFunctionsAreLeftOut ==
    Done =>
        /\ DOMAIN cfg.nodes \cap BlacklistedNodes = {}
        /\ \A e \in cfg.edges :
               e[1] \notin BlacklistedNodes /\ e[2] \notin BlacklistedNodes

====
